---- MODULE Spec2Model ----
(***************************************************************************)
(* A model of the lexical sentiment scorer of src/src/main.js: the lexicon *)
(* loader (loadLexicon, normalizeLexiconKeys, buildFallbackLexicon,        *)
(* extractPhrases), the tokenizer (normalizeToken, tokenize) and the       *)
(* context-aware scorer (scoreTextWithContext) driven by the text box's    *)
(* input events, the mapping of the scores to the blob's targets in the    *)
(* input listener, and the frame callback (animate).                       *)
(*                                                                         *)
(* Representation.                                                         *)
(*  - JavaScript strings are TLA+ strings; Len, \o, SubSeq, Head and Tail  *)
(*    act on them character by character.                                  *)
(*  - A JavaScript value is a tagged record: Num(n), NaN, Null, Undefined, *)
(*    Fn (a function object) or Obj(entries).          An object keeps its *)
(*    own properties as a sequence of [k, v] entries in insertion order,   *)
(*    which is the order Object.keys and Object.entries enumerate string   *)
(*    keys in.                                                             *)
(*  - Numbers are exact decimals.  A lexicon weight n stands for n/10      *)
(*    (1.0 is 10), an intensifier for n/10 (1.6 is 16), a diminisher for   *)
(*    n/100 (0.55 is 55), the contrast boost and the negation factor for   *)
(*    n/10 (16 and -8).  A contribution is the product weight * intensity  *)
(*    * soften * contrast * negation with every factor present (a factor   *)
(*    the code does not apply is 1.0), so every score is a whole number of *)
(*    1/10^6 units: Num(1000000) is 1.0.  The code computes in IEEE        *)
(*    doubles; the model leaves rounding out.                              *)
(*  - What the input listener derives from the scores and what animate     *)
(*    keeps (typingEnergy, the targets, the dbg* values, the colours) are  *)
(*    fixed-point numbers in thousandths: Num(1000) is 1.0, a product or a *)
(*    quotient being cut to a whole number of thousandths.                 *)
(***************************************************************************)
EXTENDS Integers, Sequences, FiniteSets, TLC

VARIABLES
  LEXICON,         \* main.js:203  the active lexicon, Null until loaded
  CACHED_PHRASES,  \* main.js:206  the phrase list extracted from LEXICON
  loadPc,          \* where the asynchronous loadLexicon stands
  loadOutcome,     \* how loadLexicon ended (observation)
  userText,        \* main.js:180  the text box's value at the last input event
  args,            \* the lexicon and phrase list the last input event scored with
  ret,             \* what scoreTextWithContext returned to the last input event
  matches,         \* the matches that call scored, in order (observation)
  used,            \* main.js:443  the call's consumed positions when it returned
  tok,             \* a token handed to normalizeToken
  tok1,            \* normalizeToken(tok)
  tok2,            \* normalizeToken(normalizeToken(tok))
  tokPc,           \* how many times normalizeToken has been applied
  typingEnergy,    \* main.js:195
  targetSpeed,     \* main.js:148
  targetAmplitude, \* main.js:149
  dbgAngerPct,     \* main.js:129
  dbgJoyPct,       \* main.js:130
  dbgSadPct,       \* main.js:131
  dbgDrama,        \* main.js:132
  dbgHits,         \* main.js:133
  dbgTotalWords,   \* main.js:134
  dbgBaselineBoost,\* main.js:135
  u_time,          \* main.js:630  the clock, in frames drawn
  targetR,         \* main.js:157
  targetG,
  targetB,
  currentR,        \* main.js:156  (r, g, b and the colour uniforms are copies)
  currentG,
  currentB,
  speed,           \* main.js:152
  amplitude        \* main.js:153

\* What the input listener writes besides the scorer's call
mapperVars == <<typingEnergy, targetSpeed, targetAmplitude, dbgAngerPct, dbgJoyPct,
                dbgSadPct, dbgDrama, dbgHits, dbgTotalWords, dbgBaselineBoost>>

\* What animate writes besides typingEnergy
frameVars == <<u_time, targetR, targetG, targetB, currentR, currentG, currentB,
               speed, amplitude>>

vars == <<LEXICON, CACHED_PHRASES, loadPc, loadOutcome, userText, args, ret, matches,
          used, tok, tok1, tok2, tokPc, mapperVars, frameVars>>

(***************************************************************************)
(* JavaScript values                                                       *)
(***************************************************************************)
Num(n) == [t |-> "num", n |-> n]
NaN == [t |-> "nan"]
Null == [t |-> "null"]
Undefined == [t |-> "undefined"]
Fn == [t |-> "fn"]
Obj(entries) == [t |-> "obj", e |-> entries]

IsNum(v) == v.t = "num"
IsObj(v) == v.t = "obj"
\* x == null / x != null: true of null and undefined only
IsNullish(v) == v.t \in {"null", "undefined"}
\* a ?? b
Coalesce(a, b) == IF IsNullish(a) THEN b ELSE a

\* The number an arithmetic operator reads its operand as: null is 0, and
\* undefined, a function or an object is NaN.
ToNumber(v) == IF IsNum(v) THEN v ELSE IF v.t = "null" THEN Num(0) ELSE NaN

\* a * b and a + b on numbers; NaN as soon as one side is NaN
Mul(a, b) ==
  LET x == ToNumber(a)
      y == ToNumber(b)
  IN  IF IsNum(x) /\ IsNum(y) THEN Num(x.n * y.n) ELSE NaN

Add(a, b) ==
  LET x == ToNumber(a)
      y == ToNumber(b)
  IN  IF IsNum(x) /\ IsNum(y) THEN Num(x.n + y.n) ELSE NaN

\* Math.max(a, b)
MathMax(a, b) ==
  LET x == ToNumber(a)
      y == ToNumber(b)
  IN  IF IsNum(x) /\ IsNum(y) THEN (IF x.n >= y.n THEN x ELSE y) ELSE NaN

\* Math.min(a, b)
MathMin(a, b) ==
  LET x == ToNumber(a)
      y == ToNumber(b)
  IN  IF IsNum(x) /\ IsNum(y) THEN (IF x.n <= y.n THEN x ELSE y) ELSE NaN

\* a - b
Sub(a, b) ==
  LET x == ToNumber(a)
      y == ToNumber(b)
  IN  IF IsNum(x) /\ IsNum(y) THEN Num(x.n - y.n) ELSE NaN

\* a * b and a / b (b not 0) on thousandths
MulM(a, b) == IF IsNum(a) /\ IsNum(b) THEN Num((a.n * b.n) \div 1000) ELSE NaN

DivM(a, b) == IF IsNum(a) /\ IsNum(b) THEN Num((a.n * 1000) \div b.n) ELSE NaN

\* A score (1/10^6 units) in thousandths
Thousandths(v) == IF IsNum(v) THEN Num(v.n \div 1000) ELSE NaN

\* main.js:175-177
clamp(x, min, max) == MathMax(min, MathMin(max, x))

\* main.js:185-187
lerp(a, b, t) == Add(a, MulM(Sub(b, a), t))

(***************************************************************************)
(* Objects: own properties in insertion order, inherited ones from         *)
(* Object.prototype.                                                       *)
(***************************************************************************)
EmptyObj == Obj(<<>>)

ObjKeys(o) == [i \in 1..Len(o.e) |-> o.e[i].k]

HasOwn(o, key) == \E i \in 1..Len(o.e) : o.e[i].k = key

OwnIndex(o, key) == CHOOSE i \in 1..Len(o.e) : o.e[i].k = key

\* The only property of Object.prototype whose name a token can spell (a
\* token is lowercase letters and apostrophes): constructor, a function.
ProtoGet(key) == IF key = "constructor" THEN Fn ELSE Undefined

\* o[key]
ObjGet(o, key) == IF HasOwn(o, key) THEN o.e[OwnIndex(o, key)].v ELSE ProtoGet(key)

\* o[key] = v: an own property keeps its place, a new one goes last
ObjSet(o, key, v) ==
  IF HasOwn(o, key)
    THEN Obj([o.e EXCEPT ![OwnIndex(o, key)] = [k |-> key, v |-> v]])
    ELSE Obj(Append(o.e, [k |-> key, v |-> v]))

(***************************************************************************)
(* Strings                                                                 *)
(***************************************************************************)
LowerCase ==
  [A |-> "a", B |-> "b", C |-> "c", D |-> "d", E |-> "e", F |-> "f", G |-> "g",
   H |-> "h", I |-> "i", J |-> "j", K |-> "k", L |-> "l", M |-> "m", N |-> "n",
   O |-> "o", P |-> "p", Q |-> "q", R |-> "r", S |-> "s", T |-> "t", U |-> "u",
   V |-> "v", W |-> "w", X |-> "x", Y |-> "y", Z |-> "z"]

LowerLetters == {LowerCase[u] : u \in DOMAIN LowerCase}

LowerChar(c) == IF c \in DOMAIN LowerCase THEN LowerCase[c] ELSE c

RECURSIVE toLowerCase(_)
toLowerCase(s) ==
  IF s = "" THEN "" ELSE LowerChar(Head(s)) \o toLowerCase(Tail(s))

endsWith(w, suffix) ==
  /\ Len(w) >= Len(suffix)
  /\ SubSeq(w, Len(w) - Len(suffix) + 1, Len(w)) = suffix

\* w.slice(0, -n)
sliceEnd(w, n) == IF Len(w) <= n THEN "" ELSE SubSeq(w, 1, Len(w) - n)

RECURSIVE includes(_, _)
includes(s, c) ==
  IF s = "" THEN FALSE ELSE Head(s) = c \/ includes(Tail(s), c)

\* s.replace(a, b) with one-character strings: the first occurrence only
RECURSIVE replaceFirst(_, _, _)
replaceFirst(s, a, b) ==
  IF s = "" THEN ""
  ELSE IF Head(s) = a THEN b \o Tail(s)
  ELSE Head(s) \o replaceFirst(Tail(s), a, b)

\* s.split(sep) with a one-character separator; "" splits to <<"">>
RECURSIVE splitFrom(_, _, _)
splitFrom(s, sep, cur) ==
  IF s = "" THEN <<cur>>
  ELSE IF Head(s) = sep THEN <<cur>> \o splitFrom(Tail(s), sep, "")
  ELSE splitFrom(Tail(s), sep, cur \o Head(s))

split(s, sep) == splitFrom(s, sep, "")

RECURSIVE join(_, _)
join(parts, sep) ==
  IF Len(parts) = 0 THEN ""
  ELSE IF Len(parts) = 1 THEN parts[1]
  ELSE parts[1] \o sep \o join(Tail(parts), sep)

\* The right single quotation mark U+2019 of main.js:315, written here as a
\* character no token or lexicon key of the model otherwise holds.
CurlyApostrophe == "^"

(***************************************************************************)
(* normalizeToken (main.js:312-367)                                        *)
(***************************************************************************)
Contraction(w) ==
  CASE w \in {"i'm", "im"} -> "im"
    [] w \in {"can't", "cant"} -> "cant"
    [] w \in {"won't", "wont"} -> "wont"
    [] w \in {"don't", "dont"} -> "dont"
    [] w \in {"didn't", "didnt"} -> "didnt"
    [] w \in {"isn't", "isnt"} -> "isnt"
    [] w \in {"aren't", "arent"} -> "arent"
    [] OTHER -> w

StripPlural(w) ==
  IF Len(w) >= 5 /\ endsWith(w, "s") /\ ~endsWith(w, "ss") THEN sliceEnd(w, 1) ELSE w

StripLy(w) == IF Len(w) >= 6 /\ endsWith(w, "ly") THEN sliceEnd(w, 2) ELSE w

StripNess(w) == IF Len(w) >= 7 /\ endsWith(w, "ness") THEN sliceEnd(w, 4) ELSE w

StripIng(w) == IF Len(w) >= 7 /\ endsWith(w, "ing") THEN sliceEnd(w, 3) ELSE w

StripEd(w) == IF Len(w) >= 6 /\ endsWith(w, "ed") THEN sliceEnd(w, 2) ELSE w

StripEstEr(w) ==
  IF Len(w) >= 6 /\ endsWith(w, "est") THEN sliceEnd(w, 3)
  ELSE IF Len(w) >= 6 /\ endsWith(w, "er") THEN sliceEnd(w, 2)
  ELSE w

normalizeToken(raw) ==
  IF raw = "" THEN ""
  ELSE
    LET original == Contraction(replaceFirst(toLowerCase(raw), CurlyApostrophe, "'"))
        w == StripEstEr(StripEd(StripIng(StripNess(StripLy(StripPlural(original))))))
    IN  IF Len(w) < 2 THEN original ELSE w

(***************************************************************************)
(* tokenize (main.js:370-373)                                              *)
(***************************************************************************)
IsTokenChar(c) == c \in LowerLetters \/ c = "'"

\* text.match(/[a-z']+/g) || []: the maximal runs of token characters
RECURSIVE matchRuns(_, _)
matchRuns(s, cur) ==
  IF s = "" THEN (IF cur = "" THEN <<>> ELSE <<cur>>)
  ELSE IF IsTokenChar(Head(s)) THEN matchRuns(Tail(s), cur \o Head(s))
  ELSE (IF cur = "" THEN <<>> ELSE <<cur>>) \o matchRuns(Tail(s), "")

rawTokens(text) == matchRuns(toLowerCase(text), "")

tokenize(text) ==
  LET raw == rawTokens(text)
  IN  [i \in 1..Len(raw) |-> normalizeToken(raw[i])]

(***************************************************************************)
(* The fallback word lists (main.js:7-9)                                   *)
(***************************************************************************)
angerWords ==
  <<"angry", "mad", "furious", "hate", "pissed", "annoyed", "rage", "frustrated">>

joyWords == <<"happy", "excited", "joy", "fun", "love", "great", "awesome", "good">>

sadWords == <<"sad", "tired", "down", "depressed", "lonely", "upset", "empty", "low">>

(***************************************************************************)
(* normalizeLexiconKeys (main.js:209-232)                                  *)
(***************************************************************************)
\* What a call that throws evaluates to
Throw == [t |-> "throw"]

Throws(v) == v.t = "throw"

\* Object.keys / Object.entries of a value: a TypeError for null and
\* undefined, nothing for a number, the own properties of an object.
Entries(v) == IF IsNullish(v) THEN Throw ELSE IF IsObj(v) THEN Obj(v.e) ELSE EmptyObj

\* The inner loop of normalizeLexiconKeys from entry i on: table is
\* out[emotion] so far.
RECURSIVE NormalizeEntries(_, _, _)
NormalizeEntries(entries, i, table) ==
  IF i > Len(entries) THEN table
  ELSE
    LET rawKey == entries[i].k
        weight == entries[i].v
        k1 == toLowerCase(rawKey)
        k2 == normalizeToken(k1)
        t1 == ObjSet(table, k1, MathMax(Coalesce(ObjGet(table, k1), Num(0)), weight))
        t2 == ObjSet(t1, k2, MathMax(Coalesce(ObjGet(t1, k2), Num(0)), weight))
    IN  IF includes(rawKey, " ")
          THEN NormalizeEntries(entries, i + 1, ObjSet(table, rawKey, weight))
          ELSE NormalizeEntries(entries, i + 1, t2)

\* The outer loop from the i-th emotion of the document on
RECURSIVE NormalizeEmotions(_, _, _)
NormalizeEmotions(emotions, i, out) ==
  IF i > Len(emotions) THEN out
  ELSE
    LET emotion == emotions[i].k
        inner == Entries(emotions[i].v)
    IN  IF Throws(inner) THEN Throw
        ELSE NormalizeEmotions(emotions, i + 1,
               ObjSet(out, emotion, NormalizeEntries(inner.e, 1, EmptyObj)))

EmptyLexicon ==
  Obj(<<[k |-> "anger", v |-> EmptyObj], [k |-> "joy", v |-> EmptyObj],
        [k |-> "sad", v |-> EmptyObj]>>)

normalizeLexiconKeys(lexicon) ==
  LET emotions == Entries(lexicon)
  IN  IF Throws(emotions) THEN Throw
      ELSE NormalizeEmotions(emotions.e, 1, EmptyLexicon)

(***************************************************************************)
(* buildFallbackLexicon (main.js:236-245)                                  *)
(***************************************************************************)
RECURSIVE FallbackTable(_, _, _)
FallbackTable(list, i, table) ==
  IF i > Len(list) THEN table
  ELSE FallbackTable(list, i + 1, ObjSet(table, list[i], Num(10)))

buildFallbackLexicon ==
  Obj(<<[k |-> "anger", v |-> FallbackTable(angerWords, 1, EmptyObj)],
        [k |-> "joy", v |-> FallbackTable(joyWords, 1, EmptyObj)],
        [k |-> "sad", v |-> FallbackTable(sadWords, 1, EmptyObj)]>>)

(***************************************************************************)
(* extractPhrases (main.js:376-401)                                        *)
(***************************************************************************)
normalizeParts(parts) == [i \in 1..Len(parts) |-> normalizeToken(parts[i])]

\* The phrase entries of one emotion's keys, in key order
RECURSIVE PhrasesOf(_, _, _)
PhrasesOf(emotion, entries, i) ==
  IF i > Len(entries) THEN <<>>
  ELSE
    LET key == entries[i].k
        here == IF includes(key, " ")
                  THEN <<[phrase |-> join(normalizeParts(split(key, " ")), " "),
                          emotion |-> emotion,
                          weight |-> entries[i].v]>>
                  ELSE <<>>
    IN  here \o PhrasesOf(emotion, entries, i + 1)

RECURSIVE PhrasesFrom(_, _)
PhrasesFrom(emotions, i) ==
  IF i > Len(emotions) THEN <<>>
  ELSE PhrasesOf(emotions[i].k, emotions[i].v.e, 1) \o PhrasesFrom(emotions, i + 1)

wordCount(p) == Len(split(p.phrase, " "))

\* A sort that puts p before the entries of its own word count
RECURSIVE insertSorted_Unstable(_, _)
insertSorted_Unstable(sorted, p) ==
  IF Len(sorted) = 0 THEN <<p>>
  ELSE IF wordCount(Head(sorted)) > wordCount(p)
    THEN <<Head(sorted)>> \o insertSorted_Unstable(Tail(sorted), p)
    ELSE <<p>> \o sorted

\* phrases.sort((a, b) => wordCount(b) - wordCount(a)): Array.prototype.sort
\* is stable, so p goes behind every entry that has at least its word count.
RECURSIVE insertSorted(_, _)
insertSorted(sorted, p) ==
  IF Len(sorted) = 0 THEN <<p>>
  ELSE IF wordCount(Head(sorted)) >= wordCount(p)
    THEN <<Head(sorted)>> \o insertSorted(Tail(sorted), p)
    ELSE <<p>> \o sorted

RECURSIVE sortPhrases(_, _, _)
sortPhrases(phrases, i, sorted) ==
  IF i > Len(phrases) THEN sorted
  ELSE sortPhrases(phrases, i + 1, insertSorted(sorted, phrases[i]))

extractPhrases(lexicon) == sortPhrases(PhrasesFrom(lexicon.e, 1), 1, <<>>)

(***************************************************************************)
(* The context tables (main.js:276-306)                                    *)
(***************************************************************************)
NEGATIONS ==
  {"not", "no", "never", "dont", "can't", "cant", "won't", "wont", "didn't",
   "didnt", "isn't", "isnt", "aren't", "arent"}

\* factors in tenths
INTENSIFIERS ==
  [very |-> 16, really |-> 14, so |-> 13, extremely |-> 20, super |-> 16,
   incredibly |-> 20, insanely |-> 20]

\* factors in hundredths

DIMINISHERS ==
  ("kinda" :> 55) @@ ("kindof" :> 55) @@ ("sorta" :> 60) @@ ("somewhat" :> 65) @@
  ("slightly" :> 60) @@ ("little" :> 50) @@ ("a" :> 100) @@ ("a little" :> 50) @@
  ("a bit" :> 55) @@ ("a little bit" :> 45) @@ ("kind of" :> 55) @@
  ("sort of" :> 60) @@ ("not that" :> 60) @@ ("a touch" :> 55) @@ ("a tad" :> 55)

\* map.get(key)
MapGet(map, key) == IF key \in DOMAIN map THEN Num(map[key]) ELSE Undefined

(***************************************************************************)
(* scoreTextWithContext (main.js:430-523).  Positions are 1-based here:    *)
(* words[1] is the code's words[0], and contrastIdx is 0 where the code's  *)
(* findIndex gives -1.                                                     *)
(***************************************************************************)
\* main.js:440, in tenths
contrastBoost == 16

\* main.js:490 and 514, in tenths
negationFactor == -8

IsContrastMarker(w) == w = "but" \/ w = "however" \/ w = "though"

\* words.findIndex(...) + 1
contrastIdx(words) ==
  IF \E i \in 1..Len(words) : IsContrastMarker(words[i])
    THEN CHOOSE i \in 1..Len(words) :
           /\ IsContrastMarker(words[i])
           /\ \A j \in 1..(i - 1) : ~IsContrastMarker(words[j])
    ELSE 0

\* words[i] || ""
WordAt(words, i) == IF i \in 1..Len(words) THEN words[i] ELSE ""

\* A negation test that looks one token back only
isNegated_NearOnly(words, i) == WordAt(words, i - 1) \in NEGATIONS

isNegated(words, i) ==
  WordAt(words, i - 1) \in NEGATIONS \/ WordAt(words, i - 2) \in NEGATIONS

intensity(words, i) ==
  Coalesce(MapGet(INTENSIFIERS, WordAt(words, i - 1)),
           Coalesce(MapGet(INTENSIFIERS, WordAt(words, i - 2)), Num(10)))

soften(words, i) ==
  Coalesce(MapGet(DIMINISHERS, WordAt(words, i - 1)),
           Coalesce(MapGet(DIMINISHERS, WordAt(words, i - 2)), Num(100)))

\* w *= contrastBoost, when the match starts after the pivot
contrastFactor(cIdx, i) == IF cIdx # 0 /\ i > cIdx THEN contrastBoost ELSE 10

\* w *= -0.8, when negated
negFactor(words, i) == IF isNegated(words, i) THEN negationFactor ELSE 10

\* The value added to scores[emotion] for a match of this weight that starts
\* at position i (main.js:476-490 and 504-514)
Contribution(weight, words, i, cIdx) ==
  Mul(Mul(Mul(Mul(weight, intensity(words, i)), soften(words, i)),
          Num(contrastFactor(cIdx, i))),
      Num(negFactor(words, i)))

\* Whether phrase entry p matches words from position i (main.js:456-464)
phraseMatches(p, words, i) ==
  LET parts == split(p.phrase, " ")
  IN  \A k \in 1..Len(parts) : i + k - 1 <= Len(words) /\ words[i + k - 1] = parts[k]

\* The index in phrases of the first entry that matches at i, or 0
\* (main.js:453-470)
findPhrase(phrases, words, i) ==
  IF \E n \in 1..Len(phrases) : phraseMatches(phrases[n], words, i)
    THEN CHOOSE n \in 1..Len(phrases) :
           /\ phraseMatches(phrases[n], words, i)
           /\ \A m \in 1..(n - 1) : ~phraseMatches(phrases[m], words, i)
    ELSE 0

\* A phrase match that marks its first position only
phraseSpan_FirstOnly(p, i) == {i}

\* The positions a phrase match at i marks used (main.js:474)
phraseSpan(p, i) == i..(i + wordCount(p) - 1)

\* scores[emotion] += w; hits += 1, and the match noted
Record(st, kind, i, len, emotion, weight, w) ==
  [st EXCEPT !.scores = ObjSet(@, emotion, Add(ObjGet(@, emotion), w)),
             !.hits = @ + 1,
             !.log = Append(@, [kind |-> kind, idx |-> i, len |-> len,
                                emotion |-> emotion, weight |-> weight, w |-> w])]

\* main.js:473-495
applyPhrase(st, p, words, i, cIdx) ==
  Record([st EXCEPT !.used = @ \cup phraseSpan(p, i)],
         "phrase", i, wordCount(p), p.emotion, p.weight,
         Contribution(p.weight, words, i, cIdx))

\* main.js:500-519, from the n-th emotion of the lexicon on
RECURSIVE applyWord(_, _, _, _, _, _)
applyWord(st, lexicon, n, words, i, cIdx) ==
  IF n > Len(lexicon.e) THEN st
  ELSE
    LET emotion == lexicon.e[n].k
        weightFromLexicon == ObjGet(lexicon.e[n].v, words[i])
    IN  IF ~IsNullish(weightFromLexicon)
          THEN applyWord(Record(st, "word", i, 1, emotion, weightFromLexicon,
                                Contribution(weightFromLexicon, words, i, cIdx)),
                         lexicon, n + 1, words, i, cIdx)
          ELSE applyWord(st, lexicon, n + 1, words, i, cIdx)

\* One round of the loop at main.js:449
scoreAt(st, lexicon, phrases, words, i, cIdx) ==
  IF i \in st.used THEN st
  ELSE
    LET n == findPhrase(phrases, words, i)
    IN  IF n # 0
          THEN applyPhrase(st, phrases[n], words, i, cIdx)
          ELSE applyWord(st, lexicon, 1, words, i, cIdx)

RECURSIVE scoreLoop(_, _, _, _, _, _)
scoreLoop(st, lexicon, phrases, words, i, cIdx) ==
  IF i > Len(words) THEN st
  ELSE scoreLoop(scoreAt(st, lexicon, phrases, words, i, cIdx),
                 lexicon, phrases, words, i + 1, cIdx)

ZeroScores ==
  Obj(<<[k |-> "anger", v |-> Num(0)], [k |-> "joy", v |-> Num(0)],
        [k |-> "sad", v |-> Num(0)]>>)

\* scoreTextWithContext with an early return that reports no words
scoreTextWithContext_NoWords(text, lexicon, phrases) ==
  LET words == tokenize(text)
      st0 == [scores |-> ZeroScores, hits |-> 0, used |-> {}, log |-> <<>>,
              totalWords |-> Len(words), words |-> words, early |-> TRUE]
  IN  IF lexicon.t = "null" \/ Len(words) = 0
        THEN [st0 EXCEPT !.totalWords = 0]
        ELSE [scoreLoop(st0, lexicon, phrases, words, 1, contrastIdx(words))
                EXCEPT !.early = FALSE]

\* The call's state when it returns: the scores object, hits, totalWords,
\* the used array and the matches.  early says the guard at main.js:434
\* returned.
scoreTextWithContext(text, lexicon, phrases) ==
  LET words == tokenize(text)
      st0 == [scores |-> ZeroScores, hits |-> 0, used |-> {}, log |-> <<>>,
              totalWords |-> Len(words), words |-> words, early |-> TRUE]
  IN  IF lexicon.t = "null" \/ Len(words) = 0
        THEN st0
        ELSE [scoreLoop(st0, lexicon, phrases, words, 1, contrastIdx(words))
                EXCEPT !.early = FALSE]

\* const { anger, joy, sad, hits, totalWords } = ... (main.js:537)
Returned(st) ==
  [t |-> "result", anger |-> ObjGet(st.scores, "anger"),
   joy |-> ObjGet(st.scores, "joy"), sad |-> ObjGet(st.scores, "sad"),
   hits |-> st.hits, totalWords |-> st.totalWords]

(***************************************************************************)
(* loadLexicon (main.js:248-265).  The function runs when the module is    *)
(* loaded and stops at its two awaits: fetch(url) and res.json().  What    *)
(* follows an await runs to its end before any other event is handled.     *)
(***************************************************************************)
\* A catch block that only logs
CatchBlock_LogsOnly == [LEXICON |-> Null, CACHED_PHRASES |-> <<>>]

\* The catch block (main.js:260-264)
CatchBlock ==
  [LEXICON |-> buildFallbackLexicon,
   CACHED_PHRASES |-> extractPhrases(buildFallbackLexicon)]

\* A try block that leaves the phrase list as it was declared
TryBlock_NoPhrases(data) ==
  LET lex == normalizeLexiconKeys(data)
  IN  IF Throws(lex) THEN CatchBlock
      ELSE [LEXICON |-> lex, CACHED_PHRASES |-> <<>>]

\* main.js:256-257 for a parsed document, or the catch block when
\* normalizeLexiconKeys throws
TryBlock(data) ==
  LET lex == normalizeLexiconKeys(data)
  IN  IF Throws(lex) THEN CatchBlock
      ELSE [LEXICON |-> lex, CACHED_PHRASES |-> extractPhrases(lex)]

\* What res.json() gives for a body that is not JSON
ParseError == [t |-> "parseError"]

LoaderUnchanged ==
  UNCHANGED <<userText, args, ret, matches, used, tok, tok1, tok2, tokPc, mapperVars,
              frameVars>>

\* await fetch(url) settles: rejected (a network error), or resolved with
\* res.ok false (the throw at main.js:252) or true
FetchSettles ==
  /\ loadPc = "fetch"
  /\ \E outcome \in {"rejected", "status", "ok"} :
       IF outcome = "ok"
         THEN /\ loadPc' = "json"
              /\ UNCHANGED <<LEXICON, CACHED_PHRASES, loadOutcome>>
         ELSE /\ loadPc' = "done"
              /\ LEXICON' = CatchBlock.LEXICON
              /\ CACHED_PHRASES' = CatchBlock.CACHED_PHRASES
              /\ loadOutcome' = [kind |-> outcome, data |-> Null]
  /\ LoaderUnchanged

\* await res.json() settles: rejected (ParseError) or resolved with data
JsonSettles(bodies) ==
  /\ loadPc = "json"
  /\ \E body \in bodies :
       LET after == IF body = ParseError THEN CatchBlock ELSE TryBlock(body)
           kind == IF body = ParseError THEN "parse"
                   ELSE IF Throws(normalizeLexiconKeys(body)) THEN "threw"
                   ELSE "loaded"
       IN  /\ loadPc' = "done"
           /\ LEXICON' = after.LEXICON
           /\ CACHED_PHRASES' = after.CACHED_PHRASES
           /\ loadOutcome' = [kind |-> kind, data |-> body]
  /\ LoaderUnchanged

(***************************************************************************)
(* The mapper's presets (main.js:144-172, 183, 159, 644), in thousandths   *)
(***************************************************************************)
BASE_SPEED == 1000
BASE_AMP == 600
ANGER_SPEED_BOOST == 2000
ANGER_AMP_BOOST == 1200
SAD_SPEED_DROP == 1000
SAD_AMP_DROP == 600
JOY_SPEED_BOOST == 100
JOY_AMP_BOOST == 100
smooth == 80
COLOR_LERP == 60
MIN == 120

(***************************************************************************)
(* The input event listener (main.js:529-621): the text box's value is     *)
(* scored with the lexicon and phrase list of that moment, and the scores  *)
(* are turned into the blob's targets.  (lastTypedAt, which nothing reads, *)
(* is left out.)                                                           *)
(***************************************************************************)
\* The targets and dbg* values as the listener finds them
MapperNow ==
  [targetSpeed |-> targetSpeed, targetAmplitude |-> targetAmplitude,
   dbgAngerPct |-> dbgAngerPct, dbgJoyPct |-> dbgJoyPct, dbgSadPct |-> dbgSadPct,
   dbgDrama |-> dbgDrama, dbgHits |-> dbgHits, dbgTotalWords |-> dbgTotalWords,
   dbgBaselineBoost |-> dbgBaselineBoost]

\* main.js:540-544
GoNeutral(now) ==
  [now EXCEPT !.targetSpeed = Num(BASE_SPEED), !.targetAmplitude = Num(BASE_AMP)]

\* main.js:564-565
baselineBoostOf(totalWords, energy) ==
  LET textLengthBoost == clamp(Num((totalWords * 1000) \div 40), Num(0), Num(1000))
  IN  Add(Add(Num(250), MulM(energy, Num(900))), MulM(textLengthBoost, Num(250)))

\* main.js:555-559
dramaOf(hits, totalWords) == Add(Num(1000), MulM(Num((hits * 1000) \div totalWords), Num(12000)))

\* main.js:568-581
BaselineOnly(now, r, baselineBoost) ==
  [targetSpeed |-> clamp(Add(Num(BASE_SPEED), MulM(baselineBoost, Num(800))),
                         Num(200), Num(6000)),
   targetAmplitude |-> clamp(Add(Num(BASE_AMP), MulM(baselineBoost, Num(600))),
                             Num(50), Num(5000)),
   dbgAngerPct |-> Num(0), dbgJoyPct |-> Num(0), dbgSadPct |-> Num(0),
   dbgDrama |-> Num(0), dbgHits |-> r.hits, dbgTotalWords |-> r.totalWords,
   dbgBaselineBoost |-> baselineBoost]

\* main.js:584-617
PushTargets(r, a, j, s, sum, drama, baselineBoost) ==
  LET angerPct == DivM(a, sum)
      joyPct == DivM(j, sum)
      sadPct == DivM(s, sum)
      pushedSpeed ==
        Sub(Add(Add(Num(BASE_SPEED),
                    MulM(MulM(angerPct, Num(ANGER_SPEED_BOOST)), drama)),
                MulM(MulM(joyPct, Num(JOY_SPEED_BOOST)), drama)),
            MulM(MulM(sadPct, Num(SAD_SPEED_DROP)), drama))
      pushedAmplitude ==
        Sub(Add(Add(Num(BASE_AMP),
                    MulM(MulM(angerPct, Num(ANGER_AMP_BOOST)), drama)),
                MulM(MulM(joyPct, Num(JOY_AMP_BOOST)), drama)),
            MulM(MulM(sadPct, Num(SAD_AMP_DROP)), drama))
  IN  [targetSpeed |-> clamp(Add(pushedSpeed, MulM(baselineBoost, Num(350))),
                             Num(200), Num(6000)),
       targetAmplitude |-> clamp(Add(pushedAmplitude, MulM(baselineBoost, Num(250))),
                                 Num(50), Num(5000)),
       dbgAngerPct |-> angerPct, dbgJoyPct |-> joyPct, dbgSadPct |-> sadPct,
       dbgDrama |-> drama, dbgHits |-> r.hits, dbgTotalWords |-> r.totalWords,
       dbgBaselineBoost |-> baselineBoost]

\* main.js:540-617: the targets and dbg* values the listener leaves, for the
\* scorer's result r and the typing energy of the event
Mapper(now, r, energy) ==
  IF r.totalWords = 0 THEN GoNeutral(now)
  ELSE
    LET a == MathMax(Num(0), r.anger)
        j == MathMax(Num(0), r.joy)
        s == MathMax(Num(0), r.sad)
        sum == Add(Add(a, j), s)
        drama == dramaOf(r.hits, r.totalWords)
        baselineBoost == baselineBoostOf(r.totalWords, energy)
    IN  IF sum = Num(0) THEN BaselineOnly(now, r, baselineBoost)
        ELSE PushTargets(r, Thousandths(a), Thousandths(j), Thousandths(s),
                         Thousandths(sum), drama, baselineBoost)

InputEvent(value) ==
  \E st \in {scoreTextWithContext(value, LEXICON, CACHED_PHRASES)} :
  \E energy \in {clamp(Add(typingEnergy, Num(350)), Num(0), Num(1000))} :
  \E m \in {Mapper(MapperNow, Returned(st), energy)} :
      /\ userText' = value
      /\ typingEnergy' = energy
      /\ args' = [lexicon |-> LEXICON, phrases |-> CACHED_PHRASES]
      /\ ret' = Returned(st)
      /\ matches' = st.log
      /\ used' = st.used
      /\ targetSpeed' = m.targetSpeed
      /\ targetAmplitude' = m.targetAmplitude
      /\ dbgAngerPct' = m.dbgAngerPct
      /\ dbgJoyPct' = m.dbgJoyPct
      /\ dbgSadPct' = m.dbgSadPct
      /\ dbgDrama' = m.dbgDrama
      /\ dbgHits' = m.dbgHits
      /\ dbgTotalWords' = m.dbgTotalWords
      /\ dbgBaselineBoost' = m.dbgBaselineBoost
      /\ UNCHANGED <<LEXICON, CACHED_PHRASES, loadPc, loadOutcome, tok, tok1, tok2, tokPc,
                     frameVars>>

\* The words typed so far, a space between two
NumChunks(text) == IF text = "" THEN 0 ELSE Len(split(text, " "))

\* The user types one more word of vocabulary, at most max in all
TypeWord(vocabulary, max) ==
  /\ NumChunks(userText) < max
  /\ \E w \in vocabulary :
       InputEvent(IF userText = "" THEN w ELSE userText \o " " \o w)

\* The user empties the text box
ClearText ==
  /\ userText # ""
  /\ InputEvent("")

(***************************************************************************)
(* Lexicon documents the server may answer with                            *)
(***************************************************************************)
\* A table of <<key, weight in tenths>> pairs
Table(pairs) == Obj([i \in 1..Len(pairs) |-> [k |-> pairs[i][1], v |-> Num(pairs[i][2])]])

Document(anger, joy, sad) ==
  Obj(<<[k |-> "anger", v |-> anger], [k |-> "joy", v |-> joy], [k |-> "sad", v |-> sad]>>)

\* {"sad": {"burned out": 2.0, "burned": 1.0}}
DocBurned ==
  Obj(<<[k |-> "sad", v |-> Table(<<<<"burned out", 20>>, <<"burned", 10>>>>)]>>)

\* {"joy": {"excite": 1.5}}
DocExcite == Obj(<<[k |-> "joy", v |-> Table(<<<<"excite", 15>>>>)]>>)

\* All three emotions; keys that collide once lowercased or stemmed (Happy
\* and happy; burned, BURN and burn), a two-word and a three-word phrase
DocFull ==
  Document(Table(<<<<"angry", 10>>, <<"fed up", 15>>>>),
           Table(<<<<"Happy", 10>>, <<"happy", 20>>, <<"excited", 15>>>>),
           Table(<<<<"sad", 10>>, <<"burned", 10>>, <<"BURN", 30>>,
                   <<"burned out", 20>>, <<"out of it", 25>>, <<"out", 5>>>>))

\* {"anger": null, "joy": {"happy": 1.0}, "sad": {}}: Object.entries throws
DocNullTable == Document(Null, Table(<<<<"happy", 10>>>>), EmptyObj)

\* The JSON text null: Object.keys throws
DocNull == Null

(***************************************************************************)
(* The page from its load on: the fetch is pending, the lexicon absent.    *)
(***************************************************************************)
MaxWords == 3

Vocabulary == {"happy", "Sad", "burned", "out", "constructor", "!!"}

Bodies == {ParseError, DocNull, DocNullTable, DocBurned, DocFull}

NoCall == [t |-> "none"]

ScorerIdle ==
  /\ userText = ""
  /\ args = NoCall
  /\ ret = NoCall
  /\ matches = <<>>
  /\ used = {}

TokenIdle ==
  /\ tok = ""
  /\ tok1 = ""
  /\ tok2 = ""
  /\ tokPc = 0

\* main.js:129-157, 195: the values the globals are declared with
MapperIdle ==
  /\ typingEnergy = Num(0)
  /\ targetSpeed = Num(1000)
  /\ targetAmplitude = Num(600)
  /\ dbgAngerPct = Num(0)
  /\ dbgJoyPct = Num(0)
  /\ dbgSadPct = Num(0)
  /\ dbgDrama = Num(0)
  /\ dbgHits = 0
  /\ dbgTotalWords = 0
  /\ dbgBaselineBoost = Num(0)
  /\ u_time = 0
  /\ targetR = Num(180)
  /\ targetG = Num(180)
  /\ targetB = Num(220)
  /\ currentR = Num(180)
  /\ currentG = Num(180)
  /\ currentB = Num(220)
  /\ speed = Num(1000)
  /\ amplitude = Num(600)

LoaderPending ==
  /\ LEXICON = Null
  /\ CACHED_PHRASES = <<>>
  /\ loadPc = "fetch"
  /\ loadOutcome = [kind |-> "pending", data |-> Null]

Init ==
  /\ LoaderPending
  /\ ScorerIdle
  /\ TokenIdle
  /\ MapperIdle

LoadStep == FetchSettles \/ JsonSettles(Bodies)

Typing == TypeWord(Vocabulary, MaxWords)

Next == LoadStep \/ Typing \/ ClearText

Spec == Init /\ [][Next]_vars

(***************************************************************************)
(* normalizeToken applied to a token, and again to what it returned.       *)
(***************************************************************************)
MaxTokLen == 7

TokAlphabet == {"a", "l", "s", "y"}

RECURSIVE StringsUpTo(_)
StringsUpTo(n) ==
  IF n = 0 THEN {""}
  ELSE LET shorter == StringsUpTo(n - 1)
       IN  shorter \cup {s \o c : s \in shorter, c \in TokAlphabet}

SampleTokens ==
  {"'", "i'm", "can't", "can'ts", "don't", "excite", "excited", "exciting",
   "happier", "happiest", "happiness", "jealous", "jealously", "furious",
   "however", "really", "tired", "glass", "classes"}

Tokens == StringsUpTo(MaxTokLen) \cup SampleTokens

InitNorm ==
  /\ LoaderPending
  /\ ScorerIdle
  /\ tok \in Tokens
  /\ tok1 = ""
  /\ tok2 = ""
  /\ tokPc = 0
  /\ MapperIdle

TokenUnchanged ==
  UNCHANGED <<LEXICON, CACHED_PHRASES, loadPc, loadOutcome, userText, args, ret,
              matches, used, mapperVars, frameVars>>

NormalizeOnce ==
  /\ tokPc = 0
  /\ tok1' = normalizeToken(tok)
  /\ tokPc' = 1
  /\ UNCHANGED <<tok, tok2>>
  /\ TokenUnchanged

NormalizeAgain ==
  /\ tokPc = 1
  /\ tok2' = normalizeToken(tok1)
  /\ tokPc' = 2
  /\ UNCHANGED <<tok, tok1>>
  /\ TokenUnchanged

NextNorm == NormalizeOnce \/ NormalizeAgain

SpecNorm == InitNorm /\ [][NextNorm]_vars

\* C1: normalizeToken is idempotent: for every token of lowercase letters
\* and apostrophes, normalizing the normalized token gives it back.
C1_Idempotent == tokPc = 2 => tok2 = tok1

(***************************************************************************)
(* The page once loadLexicon has resolved with a document: only input      *)
(* events follow.                                                          *)
(***************************************************************************)
InitLoaded(doc) ==
  /\ LEXICON = TryBlock(doc).LEXICON
  /\ CACHED_PHRASES = TryBlock(doc).CACHED_PHRASES
  /\ loadPc = "done"
  /\ loadOutcome = [kind |-> "loaded", data |-> doc]
  /\ ScorerIdle
  /\ TokenIdle
  /\ MapperIdle

Scored == ret.t = "result"

\* What the scorer returns for a text under the active lexicon
ScoreOf(text) == Returned(scoreTextWithContext(text, LEXICON, CACHED_PHRASES))

(***************************************************************************)
(* C2: the lexicon of {"joy": {"excite": 1.5}}                             *)
(***************************************************************************)
VocabExcite == {"I", "i", "am", "EXCITED", "excite"}

InitExcite == InitLoaded(DocExcite)

NextExcite == TypeWord(VocabExcite, MaxWords) \/ ClearText

SpecExcite == InitExcite /\ [][NextExcite]_vars

\* C2: with the lexicon built from a raw table holding the joy entry
\* "excite", "I am EXCITED" and "i am excite" get the same joy total.
C2_StemInvariance ==
  (Scored /\ userText = "I am EXCITED") => ret.joy = ScoreOf("i am excite").joy

(***************************************************************************)
(* C3: contrast markers, under the lexicon of DocFull                      *)
(***************************************************************************)
MaxLongWords == 5

VocabContrast == {"I", "am", "sad", "happy", "but", "however", "though"}

InitContrast == InitLoaded(DocFull)

NextContrast == TypeWord(VocabContrast, MaxLongWords) \/ ClearText

SpecContrast == InitContrast /\ [][NextContrast]_vars

\* The pivot as the claim has it: the position of the first word of the
\* text that is "but", "however" or "though", 0 if there is none
TextPivot(text) ==
  LET raw == rawTokens(text)
      marks == {i \in 1..Len(raw) : raw[i] \in {"but", "however", "though"}}
  IN  IF marks = {} THEN 0 ELSE CHOOSE i \in marks : \A j \in marks : i <= j

\* The contribution of match m when its contrast factor is boost (tenths)
WithContrast(m, words, boost) ==
  Mul(Mul(Mul(Mul(m.weight, intensity(words, m.idx)), soften(words, m.idx)),
          Num(boost)),
      Num(negFactor(words, m.idx)))

\* C3: every match that starts strictly after the first "but", "however" or
\* "though" of the text is multiplied by 1.6, and no other match is.
C3_ContrastPivot ==
  Scored =>
    \A n \in 1..Len(matches) :
      matches[n].w =
        WithContrast(matches[n], tokenize(userText),
                     IF TextPivot(userText) # 0 /\ matches[n].idx > TextPivot(userText)
                       THEN contrastBoost ELSE 10)

(***************************************************************************)
(* C7: intensifiers, under the lexicon of DocFull                          *)
(***************************************************************************)
VocabIntens ==
  {"very", "really", "so", "extremely", "super", "incredibly", "insanely",
   "angry", "happy", "I"}

InitIntens == InitLoaded(DocFull)

NextIntens == TypeWord(VocabIntens, MaxWords) \/ ClearText

SpecIntens == InitIntens /\ [][NextIntens]_vars

\* The intensity as the claim has it: the factor of the nearer preceding
\* word of the text if the table holds it, else the farther one's, else 1.0
TextIntensity(text, i) ==
  LET raw == rawTokens(text)
  IN  IF WordAt(raw, i - 1) \in DOMAIN INTENSIFIERS THEN INTENSIFIERS[WordAt(raw, i - 1)]
      ELSE IF WordAt(raw, i - 2) \in DOMAIN INTENSIFIERS THEN INTENSIFIERS[WordAt(raw, i - 2)]
      ELSE 10

\* C7: "m w", m an intensifier and w a lexicon word, scores m's factor times
\* what "w" alone scores; and every match is scaled by the factor of the
\* nearer preceding intensifier, else the farther one, else 1.0.
C7_IntensifierScaling ==
  Scored =>
    /\ \A m \in DOMAIN INTENSIFIERS : \A w \in {"angry", "happy"} :
         userText = m \o " " \o w =>
           /\ ret.anger.n * 10 = ScoreOf(w).anger.n * INTENSIFIERS[m]
           /\ ret.joy.n * 10 = ScoreOf(w).joy.n * INTENSIFIERS[m]
    /\ \A n \in 1..Len(matches) :
         LET words == tokenize(userText)
             i == matches[n].idx
         IN  matches[n].w =
               Mul(Mul(Mul(Mul(matches[n].weight, Num(TextIntensity(userText, i))),
                           soften(words, i)),
                       Num(contrastFactor(contrastIdx(words), i))),
                   Num(negFactor(words, i)))

(***************************************************************************)
(* C4, C5, C9, C10: the page from its load on (Spec)                       *)
(***************************************************************************)
Emotions == {"anger", "joy", "sad"}

ZeroResult(totalWords) ==
  [t |-> "result", anger |-> Num(0), joy |-> Num(0), sad |-> Num(0), hits |-> 0,
   totalWords |-> totalWords]

NoLexiconOrNoWords == args.lexicon.t = "null" \/ Len(tokenize(userText)) = 0

\* C4 as stated: with the lexicon absent, or no token in the text, the
\* scorer returns all zeros and totalWords = 0.
C4_AbsentLexiconNoWords == (Scored /\ NoLexiconOrNoWords) => ret = ZeroResult(0)

\* C4: an input event that fires before loadLexicon has resolved scores with
\* the lexicon absent; with the lexicon absent, or no token in the text, the
\* scorer returns zero scores and zero hits, and totalWords is the number of
\* tokens of the text (0 when there is none).
C4_AbsentLexicon ==
  /\ (Scored /\ loadPc # "done") => args.lexicon.t = "null"
  /\ (Scored /\ NoLexiconOrNoWords) => ret = ZeroResult(Len(tokenize(userText)))

C4_Witness ==
  /\ Scored
  /\ loadPc = "json"
  /\ args.lexicon.t = "null"
  /\ userText = "happy Sad"
  /\ ret.totalWords = 2

\* The hits the claim counts: the phrase matches taken, and the pairs of an
\* unconsumed position and an emotion whose table has the token as a key
ClaimedHits ==
  IF args.lexicon.t = "null" THEN 0
  ELSE
    LET words == tokenize(userText)
        tables == args.lexicon.e
        phraseHits == {n \in 1..Len(matches) : matches[n].kind = "phrase"}
        wordHits == {pair \in ((1..Len(words)) \ used) \X (1..Len(tables)) :
                       HasOwn(tables[pair[2]].v, words[pair[1]])}
    IN  Cardinality(phraseHits) + Cardinality(wordHits)

\* C5: totalWords is the number of tokens of the text, and hits is the
\* number of phrase matches taken plus the number of (unconsumed position,
\* emotion) pairs where the token is a key of the emotion's table.
C5_Counts ==
  Scored =>
    /\ ret.totalWords = Len(tokenize(userText))
    /\ ret.hits >= 0
    /\ ret.hits = ClaimedHits

\* The table the active lexicon was built from, per emotion: the document's,
\* or the built-in word list with weight 1.0
SourceEntries(emotion) ==
  IF loadOutcome.kind = "loaded"
    THEN (IF HasOwn(loadOutcome.data, emotion)
            THEN ObjGet(loadOutcome.data, emotion).e ELSE <<>>)
    ELSE ObjGet(buildFallbackLexicon, emotion).e

\* The source keys of one word that collapse onto key
CollapsingOnto(entries, key) ==
  {i \in 1..Len(entries) :
     /\ ~includes(entries[i].k, " ")
     /\ key \in {toLowerCase(entries[i].k), normalizeToken(entries[i].k)}}

MaxWeight(entries, indices) ==
  CHOOSE w \in {entries[i].v.n : i \in indices} :
    \A i \in indices : entries[i].v.n <= w

\* C9: once loadLexicon has completed, the lexicon has the three emotion
\* keys, and for every single-word key of the source table its lowercased
\* form and its normalized form are keys of the emotion's table, each with
\* the largest weight of the source keys that collapse onto it.
C9_ActiveLexicon ==
  loadPc = "done" =>
    \A emotion \in Emotions :
      /\ HasOwn(LEXICON, emotion)
      /\ LET source == SourceEntries(emotion)
             table == ObjGet(LEXICON, emotion)
         IN  \A i \in 1..Len(source) :
               ~includes(source[i].k, " ") =>
                 \A key \in {toLowerCase(source[i].k), normalizeToken(source[i].k)} :
                   /\ HasOwn(table, key)
                   /\ ObjGet(table, key) = Num(MaxWeight(source, CollapsingOnto(source, key)))

ListSet(list) == {list[i] : i \in 1..Len(list)}

\* table holds the words of list, each once, with weight 1.0, and no other key
IsFallbackTable(table, list) ==
  /\ table.t = "obj"
  /\ {table.e[i].k : i \in 1..Len(table.e)} = ListSet(list)
  /\ Len(table.e) = Cardinality(ListSet(list))
  /\ \A i \in 1..Len(table.e) : table.e[i].v = Num(10)

LoadFailed == loadOutcome.kind \in {"rejected", "status", "parse", "threw"}

\* C10: whichever way the fetch fails (rejected, a non-success status, a
\* body that does not parse, a document normalization throws on), the load
\* ends, no exception escapes it, LEXICON is exactly the fallback table and
\* CACHED_PHRASES is the phrase list of that table.
C10_LoaderFailure ==
  /\ loadPc \in {"fetch", "json", "done"}
  /\ loadPc = "done" => LEXICON.t = "obj"
  /\ (loadPc = "done" /\ LoadFailed) =>
       /\ {LEXICON.e[i].k : i \in 1..Len(LEXICON.e)} = Emotions
       /\ Len(LEXICON.e) = 3
       /\ IsFallbackTable(ObjGet(LEXICON, "anger"), angerWords)
       /\ IsFallbackTable(ObjGet(LEXICON, "joy"), joyWords)
       /\ IsFallbackTable(ObjGet(LEXICON, "sad"), sadWords)
       /\ CACHED_PHRASES = extractPhrases(LEXICON)
       /\ CACHED_PHRASES = <<>>

C10_Witness ==
  /\ loadPc = "done"
  /\ loadOutcome = [kind |-> "threw", data |-> DocNullTable]
  /\ LEXICON = buildFallbackLexicon

(***************************************************************************)
(* C8: phrases, under the lexicon of {"sad": {"burned out": 2.0, "burned": *)
(* 1.0}} and under one whose phrases overlap                               *)
(***************************************************************************)
\* Phrases of two and three words over the same words, and "out" and
\* "burned" as words of their own
DocOverlap ==
  Document(EmptyObj,
           Table(<<<<"out today", 10>>>>),
           Table(<<<<"burned out", 20>>, <<"burned", 10>>, <<"out", 5>>,
                   <<"feel burned", 15>>, <<"burned out today", 30>>>>))

VocabPhrase == {"I", "feel", "burned", "out", "today"}

InitPhrase == \E doc \in {DocBurned, DocOverlap} : InitLoaded(doc)

NextPhrase == TypeWord(VocabPhrase, MaxLongWords) \/ ClearText

SpecPhrase == InitPhrase /\ [][NextPhrase]_vars

PhraseMatches == {n \in 1..Len(matches) : matches[n].kind = "phrase"}

MatchSpan(n) == matches[n].idx..(matches[n].idx + matches[n].len - 1)

\* Position i was consumed by a phrase match that starts before it
ConsumedBefore(i) == \E n \in PhraseMatches : matches[n].idx < i /\ i \in MatchSpan(n)

\* C8: a phrase entry that matches at an unconsumed position is taken; all
\* its positions are marked consumed; it counts one contribution and one
\* hit; no consumed position is scored as a word or starts another phrase
\* match; "I feel burned out today" scores sad = 2.0 with one hit under
\* {"burned out": 2.0, "burned": 1.0}.
C8_PhraseConsumption ==
  Scored =>
    LET words == tokenize(userText)
        phrases == args.phrases
    IN  /\ \A i \in 1..Len(words) :
             (~ConsumedBefore(i) /\ \E p \in 1..Len(phrases) : phraseMatches(phrases[p], words, i))
               => \E n \in PhraseMatches : matches[n].idx = i
        /\ \A n \in PhraseMatches :
             /\ \E p \in 1..Len(phrases) :
                  /\ phraseMatches(phrases[p], words, matches[n].idx)
                  /\ matches[n].len = wordCount(phrases[p])
                  /\ matches[n].weight = phrases[p].weight
                  /\ matches[n].emotion = phrases[p].emotion
             /\ MatchSpan(n) \subseteq 1..Len(words)
             /\ MatchSpan(n) \subseteq used
             /\ \A m \in 1..Len(matches) : m # n => matches[m].idx \notin MatchSpan(n)
        /\ used = UNION {MatchSpan(n) : n \in PhraseMatches}
        /\ ret.hits = Len(matches)
        /\ (loadOutcome.data = DocBurned /\ userText = "I feel burned out today") =>
             /\ ret.sad = Num(2000000)
             /\ ret.hits = 1
             /\ used = {3, 4}

C8_Witness ==
  /\ Scored
  /\ loadOutcome.data = DocBurned
  /\ userText = "I feel burned out today"
  /\ ret.sad = Num(2000000)
  /\ ret.hits = 1
  /\ used = {3, 4}

(***************************************************************************)
(* C6: negations, under the lexicon of DocFull                             *)
(***************************************************************************)
MaxNegWords == 4

VocabNeg == {"I", "am", "not", "can't", "happy", "very", "kinda", "but"}

InitNeg == InitLoaded(DocFull)

NextNeg == TypeWord(VocabNeg, MaxNegWords) \/ ClearText

SpecNeg == InitNeg /\ [][NextNeg]_vars

\* The positions, among the two before i, of the words of the text that are
\* in the Negation set
NegationsBefore(text, i) ==
  {j \in {i - 1, i - 2} : WordAt(rawTokens(text), j) \in NEGATIONS}

RemoveAt(seq, j) == SubSeq(seq, 1, j - 1) \o SubSeq(seq, j + 1, Len(seq))

\* The text without its j-th word
WithoutWord(text, j) == join(RemoveAt(split(text, " "), j), " ")

\* The word matches of emotion at position i when text is scored
WordMatchesAt(text, i, emotion) ==
  LET log == scoreTextWithContext(text, LEXICON, CACHED_PHRASES).log
  IN  {log[n].w : n \in {k \in 1..Len(log) :
                           log[k].kind = "word" /\ log[k].idx = i /\ log[k].emotion = emotion}}

\* The contribution of match m before negation: weight x intensity x soften
\* x contrast, then the factor given (tenths)
Modified(m, words, factor) ==
  Mul(Mul(Mul(Mul(m.weight, intensity(words, m.idx)), soften(words, m.idx)),
          Num(contrastFactor(contrastIdx(words), m.idx))),
      Num(factor))

PositiveWordMatches ==
  {n \in 1..Len(matches) :
     matches[n].kind = "word" /\ IsNum(matches[n].weight) /\ matches[n].weight.n > 0}

\* C6 as stated: a word of positive weight with a Negation word among the
\* two words before it contributes -0.8 times its modified contribution, a
\* negative number, and less than it contributes in the text without that
\* Negation word; joy("I am happy") > joy("I am not happy") < 0.
C6_NegationInversionAnyText ==
  Scored =>
    /\ \A n \in PositiveWordMatches : \A j \in NegationsBefore(userText, matches[n].idx) :
         /\ matches[n].w = Modified(matches[n], tokenize(userText), negationFactor)
         /\ matches[n].w.n < 0
         /\ \A c \in WordMatchesAt(WithoutWord(userText, j), matches[n].idx - 1,
                                   matches[n].emotion) :
              matches[n].w.n < c.n
    /\ userText = "I am not happy" =>
         /\ ret.joy.n < 0
         /\ ScoreOf("I am happy").joy.n > ret.joy.n

\* C6: the same, the comparison with the text without the Negation word
\* being made when no other Negation word is then among the two words
\* before the match.
C6_NegationInversion ==
  Scored =>
    /\ \A n \in PositiveWordMatches : \A j \in NegationsBefore(userText, matches[n].idx) :
         /\ matches[n].w = Modified(matches[n], tokenize(userText), negationFactor)
         /\ matches[n].w.n < 0
         /\ NegationsBefore(WithoutWord(userText, j), matches[n].idx - 1) = {} =>
              /\ WordMatchesAt(WithoutWord(userText, j), matches[n].idx - 1,
                               matches[n].emotion) # {}
              /\ \A c \in WordMatchesAt(WithoutWord(userText, j), matches[n].idx - 1,
                                        matches[n].emotion) :
                   matches[n].w.n < c.n
    /\ userText = "I am not happy" =>
         /\ ret.joy.n < 0
         /\ ScoreOf("I am happy").joy.n > ret.joy.n

C6_Witness ==
  /\ Scored
  /\ userText = "I am not happy"
  /\ ret.joy = Num(-1600000)
  /\ ret.hits = 1

(***************************************************************************)
(* C11: the loader and the input events, interleaved (Spec)                *)
(***************************************************************************)
\* A lexicon and the phrase list that goes with it
ConsistentPair(lexicon, phrases) ==
  IF lexicon = Null THEN phrases = <<>>
  ELSE phrases = extractPhrases(lexicon)

\* A step that assigns one of the two globals
AssignsGlobals == LEXICON' # LEXICON \/ CACHED_PHRASES' # CACHED_PHRASES

\* A step of the input event listener
ScoringStep == userText' # userText

\* A step in which loadLexicon completes
LoadCompletes == loadPc # "done" /\ loadPc' = "done"

\* C11: LEXICON and CACHED_PHRASES are assigned in one step only, the one
\* in which the load completes, from the parsed document or from the
\* fallback lists; LEXICON is null before and never after; a scoring step
\* leaves both as they are; every scoring call gets null with an empty
\* phrase list, or a lexicon with the phrase list extracted from it.
C11_WriteOnce ==
  /\ [][/\ AssignsGlobals <=> LoadCompletes
        /\ LoadCompletes =>
             /\ LEXICON = Null /\ CACHED_PHRASES = <<>>
             /\ LEXICON' # Null
             /\ LEXICON' = IF loadOutcome'.kind = "loaded"
                             THEN normalizeLexiconKeys(loadOutcome'.data)
                             ELSE buildFallbackLexicon
             /\ ~ScoringStep
        /\ LEXICON # Null => LEXICON' = LEXICON /\ CACHED_PHRASES' = CACHED_PHRASES
        /\ ScoringStep =>
             /\ ~AssignsGlobals
             /\ args' = [lexicon |-> LEXICON, phrases |-> CACHED_PHRASES]
             /\ ConsistentPair(args'.lexicon, args'.phrases)]_vars
  /\ [](/\ LEXICON = Null <=> loadPc # "done"
        /\ ConsistentPair(LEXICON, CACHED_PHRASES)
        /\ args # NoCall => ConsistentPair(args.lexicon, args.phrases))

\* The load has completed with a document that has phrases, after a scoring
\* call that found no lexicon
C11_Witness ==
  /\ loadPc = "done"
  /\ loadOutcome.kind = "loaded"
  /\ CACHED_PHRASES # <<>>
  /\ userText # ""
  /\ args # NoCall
  /\ args.lexicon = Null
  /\ args.phrases = <<>>

(***************************************************************************)
(* C12: the order of the phrase list, under lexicons whose phrases overlap *)
(* and collide                                                             *)
(***************************************************************************)
\* "burned out" in two emotions, and "burning out", which normalizes to the
\* same phrase; two three-word phrases over the same words
DocTies ==
  Document(Table(<<<<"burned out", 15>>, <<"out today", 10>>>>),
           EmptyObj,
           Table(<<<<"burning out", 30>>, <<"burned out", 20>>,
                   <<"burned out today", 25>>, <<"feel burned out", 5>>>>))

VocabOrder == {"feel", "burned", "out", "today"}

InitOrder == \E doc \in {DocOverlap, DocTies} : InitLoaded(doc)

NextOrder == TypeWord(VocabOrder, MaxLongWords) \/ ClearText

SpecOrder == InitOrder /\ [][NextOrder]_vars

\* The keys of the lexicon that hold a space, as <<emotion, key>> pairs
MultiWordKeys(lexicon) ==
  UNION {{<<lexicon.e[a].k, lexicon.e[a].v.e[b].k>> :
            b \in {c \in 1..Len(lexicon.e[a].v.e) : includes(lexicon.e[a].v.e[c].k, " ")}} :
         a \in 1..Len(lexicon.e)}

\* The entries of a phrase list that have c words, in the order of the list
OfCount(list, c) == SelectSeq(list, LAMBDA p : wordCount(p) = c)

\* The positions of the list whose entry matches words at i
MatchingAt(list, words, i) == {n \in 1..Len(list) : phraseMatches(list[n], words, i)}

\* C12: the phrase list has one entry for each lexicon key that holds a
\* space; it is in descending word count, the entries of one word count in
\* the order they were found; at each unconsumed position the scorer takes
\* the first entry of the list that matches, which is a longest matching
\* one and, among those, the one found first.
C12_PhraseOrder ==
  LET found == PhrasesFrom(LEXICON.e, 1)
      list == CACHED_PHRASES
      words == tokenize(userText)
  IN  /\ Len(list) = Cardinality(MultiWordKeys(LEXICON))
      /\ \A key \in MultiWordKeys(LEXICON) : \E n \in 1..Len(list) :
           /\ list[n].phrase = join(normalizeParts(split(key[2], " ")), " ")
           /\ list[n].emotion = key[1]
           /\ list[n].weight = ObjGet(ObjGet(LEXICON, key[1]), key[2])
      /\ \A a, b \in 1..Len(list) : a < b => wordCount(list[a]) >= wordCount(list[b])
      /\ \A c \in 1..MaxLongWords : OfCount(list, c) = OfCount(found, c)
      /\ Scored =>
           \A i \in 1..Len(words) :
             (~ConsumedBefore(i) /\ MatchingAt(found, words, i) # {}) =>
               LET M == MatchingAt(found, words, i)
                   best == CHOOSE n \in M : \A m \in M :
                             \/ wordCount(found[n]) > wordCount(found[m])
                             \/ wordCount(found[n]) = wordCount(found[m]) /\ n <= m
                   first == CHOOSE n \in MatchingAt(list, words, i) :
                              \A m \in MatchingAt(list, words, i) : n <= m
               IN  /\ list[first] = found[best]
                   /\ \E r \in PhraseMatches :
                        /\ matches[r].idx = i
                        /\ matches[r].len = wordCount(list[first])
                        /\ matches[r].emotion = list[first].emotion
                        /\ matches[r].weight = list[first].weight

\* "burned out" is scored for anger, where it was found first, and a
\* three-word phrase has taken "feel burned out" before it
C12_Witness ==
  /\ Scored
  /\ loadOutcome.data = DocTies
  /\ userText = "feel burned out burned out"
  /\ ret.anger = Num(1500000)
  /\ ret.sad = Num(500000)
  /\ ret.hits = 2

(***************************************************************************)
(* animate (main.js:628-695), the frame callback of the renderer           *)
(***************************************************************************)
MaxFrames == 2

animate ==
  /\ u_time < MaxFrames
  /\ u_time' = u_time + 1
  /\ typingEnergy' = lerp(typingEnergy, Num(0), Num(30))
  /\ targetR' = MathMax(Num(MIN), dbgAngerPct)
  /\ targetG' = MathMax(Num(MIN), dbgJoyPct)
  /\ targetB' = MathMax(Num(MIN), dbgSadPct)
  /\ currentR' = Add(currentR, MulM(Sub(targetR', currentR), Num(COLOR_LERP)))
  /\ currentG' = Add(currentG, MulM(Sub(targetG', currentG), Num(COLOR_LERP)))
  /\ currentB' = Add(currentB, MulM(Sub(targetB', currentB), Num(COLOR_LERP)))
  /\ speed' = lerp(speed, targetSpeed, Num(smooth))
  /\ amplitude' = lerp(amplitude, targetAmplitude, Num(smooth))
  /\ UNCHANGED <<LEXICON, CACHED_PHRASES, loadPc, loadOutcome, userText, args, ret,
                 matches, used, tok, tok1, tok2, tokPc, targetSpeed, targetAmplitude,
                 dbgAngerPct, dbgJoyPct, dbgSadPct, dbgDrama, dbgHits, dbgTotalWords,
                 dbgBaselineBoost>>

(***************************************************************************)
(* C13: input events and frames, under the lexicon of DocFull              *)
(***************************************************************************)
MaxMapWords == 2

VocabMapper == {"happy", "sad", "constructor", "!!"}

InitMapper == InitLoaded(DocFull)

NextMapper == TypeWord(VocabMapper, MaxMapWords) \/ ClearText \/ animate

SpecMapper == InitMapper /\ [][NextMapper]_vars

InRange(v, low, high) == IsNum(v) /\ low <= v.n /\ v.n <= high

\* The last input event delivered a text with no word
EmptyTextDelivered == Scored /\ Len(tokenize(userText)) = 0

\* C13: once an input event has delivered a text with no word, targetSpeed
\* is BASE_SPEED, targetAmplitude is BASE_AMP and the three percentages
\* animate reads are 0; targetSpeed is always within [0.2, 6.0] and
\* targetAmplitude within [0.05, 5.0].
C13_NeutralOnEmptyText ==
  /\ EmptyTextDelivered =>
       /\ targetSpeed = Num(BASE_SPEED)
       /\ targetAmplitude = Num(BASE_AMP)
       /\ dbgAngerPct = Num(0)
       /\ dbgJoyPct = Num(0)
       /\ dbgSadPct = Num(0)
  /\ InRange(targetSpeed, 200, 6000)
  /\ InRange(targetAmplitude, 50, 5000)

====
